---- MODULE Spec2Model ----
(***************************************************************************)
(* Model of the Idempotency Verification Engine                            *)
(*   src/src/core/parameter_analyzer.py   (ParameterAnalyzer)              *)
(*   src/src/core/idempotency_checker.py  (IdempotencyChecker)             *)
(*   src/src/core/html_validator.py       (HTMLValidator)                  *)
(*   src/src/utils/request_handler.py     (RequestHandler)                 *)
(*   src/src/cli.py                       (main: the batch driver)         *)
(* Python str values are TLA+ strings; a dict is the sequence of its       *)
(* (key, value) items in insertion order; a list is a sequence.            *)
(***************************************************************************)
EXTENDS Integers, Sequences, FiniteSets, TLC

VARIABLES
    test_cases,     \* cli.main: the loaded list of TestCase
    idx,            \* cli.main: index of the test case the for loop is at
    test_results,   \* ReportGenerator.test_results
    pc,             \* position inside check_test_case
    result,         \* check_test_case: the TestResult under construction
    noisy_params,   \* check_test_case: local noisy_params
    violations,     \* check_test_case: local violations
    responses,      \* _execute_multiple_times: local responses
    response,       \* _execute_multiple_times: the requests.Response just received
    exception,      \* the exception propagating to check_test_case's except clause
    events,         \* observable trace of the current check (requests, snapshots, calls)
    peer,           \* the responses the endpoint under test may give
    hash_seed,      \* the interpreter's hash of each (name, value) tuple in this process
    fin,            \* input of the function under study (function specifications)
    fout            \* its output

vars == <<test_cases, idx, test_results, pc, result, noisy_params, violations,
          responses, response, exception, events, peer, hash_seed, fin, fout>>

None == "None"

(***************************************************************************)
(* Python str helpers                                                      *)
(***************************************************************************)
Char(s, i) == SubSeq(s, i, i)

Rest(s) == SubSeq(s, 2, Len(s))

UPPER == "ABCDEFGHIJKLMNOPQRSTUVWXYZ"
LOWERCASE == "abcdefghijklmnopqrstuvwxyz"
DIGITS == "0123456789"

\* c is one of the characters of the string chars
InChars(c, chars) == \E i \in 1..Len(chars) : Char(chars, i) = c

IndexIn(c, chars) == CHOOSE i \in 1..Len(chars) : Char(chars, i) = c

LowerChar(c) == IF InChars(c, UPPER) THEN Char(LOWERCASE, IndexIn(c, UPPER)) ELSE c

RECURSIVE Lower(_)
Lower(s) == IF s = "" THEN "" ELSE LowerChar(Char(s, 1)) \o Lower(Rest(s))

\* `sub in s`
Contains(s, sub) ==
    \E i \in 1..(Len(s) - Len(sub) + 1) : SubSeq(s, i, i + Len(sub) - 1) = sub

\* every character of s is in chars
AllIn(s, chars) == \A i \in 1..Len(s) : InChars(Char(s, i), chars)

RECURSIVE ToNat(_)
ToNat(s) ==
    IF s = "" THEN 0
    ELSE 10 * ToNat(SubSeq(s, 1, Len(s) - 1)) + (IndexIn(Char(s, Len(s)), DIGITS) - 1)

(***************************************************************************)
(* ParameterAnalyzer.NOISY_PATTERNS: category -> alternatives of the       *)
(* (?i) regex, in declaration order                                        *)
(***************************************************************************)
NOISY_PATTERNS ==
    << [name |-> "timestamp", alts |-> {"timestamp", "time", "date", "created_at", "updated_at"}],
       [name |-> "token",     alts |-> {"token", "auth", "bearer", "jwt"}],
       [name |-> "id",        alts |-> {"id", "uuid", "guid"}],
       [name |-> "random",    alts |-> {"random", "rand", "nonce"}],
       [name |-> "hash",      alts |-> {"hash", "md5", "sha", "digest"}],
       [name |-> "session",   alts |-> {"session", "sid"}],
       [name |-> "cache",     alts |-> {"cache", "etag"}] >>

\* re.search(pattern, key) for one entry of NOISY_PATTERNS
PatternSearch(p, key) == \E alt \in p.alts : Contains(Lower(key), alt)

\* the for/break loop over NOISY_PATTERNS: does any pattern match the key
MatchesNoisyKey(key) ==
    \E i \in 1..Len(NOISY_PATTERNS) : PatternSearch(NOISY_PATTERNS[i], key)

(***************************************************************************)
(* JSON values (TestCase.body, a parsed response body): a tagged record    *)
(*   [t |-> "str",   v |-> <string>]      [t |-> "bool", v |-> <BOOLEAN>]    *)
(*   [t |-> "int",   v |-> <decimal digits, optional leading "-">]         *)
(*   [t |-> "float", v |-> "nan" | "inf" | "-inf" | <decimal digits>]      *)
(*   [t |-> "null",  v |-> None]                                           *)
(*   [t |-> "dict",  v |-> <sequence of <<key, value>>>]                   *)
(*   [t |-> "list",  v |-> <sequence of values>]                           *)
(* An int keeps its decimal digits: Python ints are unbounded.             *)
(***************************************************************************)
StrV(s) == [t |-> "str", v |-> s]
IntV(d) == [t |-> "int", v |-> d]
FloatV(d) == [t |-> "float", v |-> d]
BoolV(b) == [t |-> "bool", v |-> b]
NullV == [t |-> "null", v |-> None]
DictV(items) == [t |-> "dict", v |-> items]
ListV(items) == [t |-> "list", v |-> items]

(***************************************************************************)
(* ParameterAnalyzer.is_timestamp                                          *)
(***************************************************************************)
\* a <= b for two strings of decimal digits without sign
RECURSIVE DigitsLE(_, _)
DigitsLE(a, b) ==
    IF Len(a) # Len(b) THEN Len(a) < Len(b)
    ELSE IF a = "" THEN TRUE
    ELSE IF Char(a, 1) # Char(b, 1)
         THEN IndexIn(Char(a, 1), DIGITS) < IndexIn(Char(b, 1), DIGITS)
         ELSE DigitsLE(Rest(a), Rest(b))

IsNegative(d) == Len(d) > 0 /\ Char(d, 1) = "-"

Magnitude(d) == IF IsNegative(d) THEN Rest(d) ELSE d

\* datetime.fromtimestamp accepts the seconds of the years 1..9999
TS_MAX == "253402300799"
TS_MIN_MAGNITUDE == "62135510400"
\* beyond these seconds the C library's localtime fails: OSError, which
\* is_timestamp does not catch (larger still: OverflowError, not caught either)
LOCALTIME_MAX == "67767976233532799"

\* datetime.fromtimestamp(value) for a number given by its decimal digits:
\* "ok", "ValueError" (caught by is_timestamp) or "raise" (OSError, OverflowError)
FromTimestamp(d) ==
    IF d = "nan" THEN "ValueError"
    ELSE IF d \in {"inf", "-inf"} THEN "raise"
    ELSE IF DigitsLE(Magnitude(d), IF IsNegative(d) THEN TS_MIN_MAGNITUDE ELSE TS_MAX) THEN "ok"
    ELSE IF DigitsLE(Magnitude(d), LOCALTIME_MAX) THEN "ValueError"
    ELSE "raise"

WHITESPACE == " \t\n\r"

Min(a, b) == IF a < b THEN a ELSE b

IsLeap(y) == (y % 4 = 0 /\ y % 100 # 0) \/ y % 400 = 0

DaysInMonth(y, m) ==
    IF m = 2 THEN (IF IsLeap(y) THEN 29 ELSE 28)
    ELSE IF m \in {4, 6, 9, 11} THEN 30 ELSE 31

IsDirective(d) == Len(d) = 2 /\ Char(d, 1) = "%"

\* the regular expression strptime compiles for one directive, matched against
\* the whole of txt
FieldOK(d, txt) ==
    LET n == Len(txt)
        num == AllIn(txt, DIGITS) /\ n >= 1
    IN CASE d = "%Y" -> num /\ n = 4
         [] d = "%m" -> num /\ n <= 2 /\ ToNat(txt) \in 1..12
         [] d = "%d" -> \/ num /\ n <= 2 /\ ToNat(txt) \in 1..31
                        \/ n = 2 /\ Char(txt, 1) = " " /\ InChars(Char(txt, 2), "123456789")
         [] d = "%H" -> num /\ n <= 2 /\ ToNat(txt) <= 23
         [] d = "%M" -> num /\ n <= 2 /\ ToNat(txt) <= 59
         [] d = "%S" -> num /\ n <= 2 /\ ToNat(txt) <= 61
         [] d = "%f" -> num /\ n <= 6
         [] OTHER -> FALSE

\* the parses of the whole of s under the format fmt (a sequence of directives
\* and literal characters): each a function directive -> matched text.
\* Literals match ignoring case; a space of the format matches \s+.
RECURSIVE StrpMatches(_, _, _)
StrpMatches(s, fmt, acc) ==
    IF fmt = <<>> THEN (IF s = "" THEN {acc} ELSE {})
    ELSE LET d == Head(fmt) IN
         IF IsDirective(d)
         THEN UNION { StrpMatches(SubSeq(s, n + 1, Len(s)), Tail(fmt), (d :> SubSeq(s, 1, n)) @@ acc)
                        : n \in {k \in 1..Min(6, Len(s)) : FieldOK(d, SubSeq(s, 1, k))} }
         ELSE IF d = " "
         THEN UNION { StrpMatches(SubSeq(s, n + 1, Len(s)), Tail(fmt), acc)
                        : n \in {k \in 1..Len(s) : AllIn(SubSeq(s, 1, k), WHITESPACE)} }
         ELSE IF s # "" /\ Lower(Char(s, 1)) = Lower(d)
         THEN StrpMatches(Rest(s), Tail(fmt), acc)
         ELSE {}

StripSpace(txt) == IF Char(txt, 1) = " " THEN Rest(txt) ELSE txt

\* the datetime constructor's range checks on a parse
ValidDateTime(p) ==
    LET y == ToNat(p["%Y"])
        m == ToNat(p["%m"])
        dd == ToNat(StripSpace(p["%d"]))
    IN /\ y >= 1
       /\ dd <= DaysInMonth(y, m)
       /\ ("%S" \in DOMAIN p => ToNat(p["%S"]) <= 59)

\* datetime.strptime(value, fmt) returns (does not raise ValueError)
Strptime(s, fmt) == \E p \in StrpMatches(s, fmt, <<>>) : ValidDateTime(p)

datetime_formats ==
    << <<"%Y", "-", "%m", "-", "%d", "T", "%H", ":", "%M", ":", "%S", ".", "%f", "Z">>,
       <<"%Y", "-", "%m", "-", "%d", "T", "%H", ":", "%M", ":", "%S", "Z">>,
       <<"%Y", "-", "%m", "-", "%d", " ", "%H", ":", "%M", ":", "%S">>,
       <<"%Y", "-", "%m", "-", "%d">> >>

\* is_timestamp(value): "True", "False", or "raise" when fromtimestamp raises
\* an exception other than ValueError/TypeError. A bool is an int in Python.
is_timestamp(value) ==
    CASE value.t \in {"int", "float"} ->
            (CASE FromTimestamp(value.v) = "ok" -> "True"
               [] FromTimestamp(value.v) = "ValueError" -> "False"
               [] OTHER -> "raise")
      [] value.t = "bool" -> "True"
      [] value.t = "str" ->
            IF \E i \in 1..Len(datetime_formats) : Strptime(value.v, datetime_formats[i])
            THEN "True" ELSE "False"
      [] OTHER -> "False"

(***************************************************************************)
(* ParameterAnalyzer.is_token                                              *)
(***************************************************************************)
ALNUM == UPPER \o LOWERCASE \o DIGITS
\* [A-Za-z0-9-_=]
TOKEN_CHARS == ALNUM \o "-_="
\* [A-Za-z0-9-_.+/=]
TOKEN_TAIL_CHARS == ALNUM \o "-_.+/="

\* `$` matches at the end of the string and before a final newline
DollarEnds(s) ==
    {s} \cup (IF Len(s) > 0 /\ Char(s, Len(s)) = "\n" THEN {SubSeq(s, 1, Len(s) - 1)} ELSE {})

\* ^[A-Za-z0-9-_=]+\.[A-Za-z0-9-_=]+\.?[A-Za-z0-9-_.+/=]*  over the whole of u
JwtLike(u) ==
    \E i \in 1..Len(u) : \E j \in (i + 2)..Len(u) :
        /\ AllIn(SubSeq(u, 1, i), TOKEN_CHARS)
        /\ Char(u, i + 1) = "."
        /\ AllIn(SubSeq(u, i + 2, j), TOKEN_CHARS)
        /\ AllIn(SubSeq(u, j + 1, Len(u)), TOKEN_TAIL_CHARS)

\* ^[A-Za-z0-9-_=]+  over the whole of u
OpaqueToken(u) == Len(u) >= 1 /\ AllIn(u, TOKEN_CHARS)

is_token(value) ==
    /\ value.t = "str"
    /\ \E u \in DollarEnds(value.v) : JwtLike(u) \/ OpaqueToken(u)

(***************************************************************************)
(* ParameterAnalyzer.analyze_parameters and its walk                       *)
(* A call either returns a list or raises: [exc |-> BOOLEAN, out |-> list] *)
(***************************************************************************)
Returns(out) == [exc |-> FALSE, msg |-> None, out |-> out]

Raises(msg) == [exc |-> TRUE, msg |-> msg, out |-> <<>>]

\* noisy_params.extend(<call>): the first exception ends the walk
Extend(a, b) == IF a.exc THEN a ELSE IF b.exc THEN b ELSE Returns(a.out \o b.out)

noisy_headers ==
    {"Authorization", "X-Request-ID", "X-Correlation-ID", "X-Timestamp",
     "X-Request-Time", "X-Response-Time", "ETag", "Last-Modified",
     "If-Modified-Since", "If-None-Match", "Cache-Control"}

\* a slip: the name is compared ignoring case
IsNoisyHeaderIgnoringCase(header_name, header_value) ==
    \E h \in noisy_headers : Lower(h) = Lower(header_name)

_is_noisy_header(header_name, header_value) == header_name \in noisy_headers

\* a slip: the dot is written even at the root
DictPathLeadingDot(path, key) == path \o "." \o key

\* f"{path}.{key}" if path else key
DictPath(path, key) == IF path # "" THEN path \o "." \o key ELSE key

\* f"{path}[{i}]", i counted from 0
ListPath(path, i) == path \o "[" \o ToString(i) \o "]"

\* the key-name loop of _analyze_dict: one append at the first matching pattern
KeyNameFindings(key, current_path) ==
    IF MatchesNoisyKey(key) THEN <<current_path>> ELSE <<>>

\* the elif chain on a scalar value: is_timestamp, then is_token
ScalarFindings(value, current_path) ==
    CASE is_timestamp(value) = "raise" -> Raises("timestamp out of range")
      [] is_timestamp(value) = "True" -> Returns(<<current_path>>)
      [] is_token(value) -> Returns(<<current_path>>)
      [] OTHER -> Returns(<<>>)

RECURSIVE _analyze_dict(_, _), _analyze_list(_, _), AnalyzeDictFrom(_, _, _), AnalyzeListFrom(_, _, _)

\* the if/elif chain on one value, shared by _analyze_dict and _analyze_list
ValueFindings(value, current_path) ==
    CASE value.t = "dict" -> _analyze_dict(value.v, current_path)
      [] value.t = "list" -> _analyze_list(value.v, current_path)
      [] OTHER -> ScalarFindings(value, current_path)

\* one iteration of the loop of _analyze_dict
DictItemFindings(key, value, current_path) ==
    Extend(Returns(KeyNameFindings(key, current_path)), ValueFindings(value, current_path))

\* the loop of _analyze_dict from item k on
AnalyzeDictFrom(items, path, k) ==
    IF k > Len(items) THEN Returns(<<>>)
    ELSE Extend(DictItemFindings(items[k][1], items[k][2], DictPath(path, items[k][1])),
                AnalyzeDictFrom(items, path, k + 1))

_analyze_dict(items, path) == AnalyzeDictFrom(items, path, 1)

\* the loop of _analyze_list from element k (index k - 1) on
AnalyzeListFrom(items, path, k) ==
    IF k > Len(items) THEN Returns(<<>>)
    ELSE Extend(ValueFindings(items[k], ListPath(path, k - 1)),
                AnalyzeListFrom(items, path, k + 1))

_analyze_list(items, path) == AnalyzeListFrom(items, path, 1)

RECURSIVE HeaderFindings(_, _)
HeaderFindings(headers, k) ==
    IF k > Len(headers) THEN <<>>
    ELSE (IF _is_noisy_header(headers[k][1], headers[k][2])
          THEN <<"header:" \o headers[k][1]>> ELSE <<>>) \o HeaderFindings(headers, k + 1)

\* `if test_case.body:` -- None (NullV) and the empty dict are falsy
Truthy(body) == body.t = "dict" /\ body.v # <<>>

analyze_parameters(test_case) ==
    Extend(Returns(HeaderFindings(test_case.headers, 1)),
           IF Truthy(test_case.body) THEN _analyze_dict(test_case.body.v, "")
           ELSE Returns(<<>>))

(***************************************************************************)
(* str() and repr() of a value, as Python prints them                      *)
(***************************************************************************)
RECURSIVE PyRepr(_), ReprItems(_, _), ReprElems(_, _)

\* repr of a str without quotes or escapes in it
ReprStr(s) == "'" \o s \o "'"

ReprItems(items, k) ==
    IF k > Len(items) THEN ""
    ELSE (IF k > 1 THEN ", " ELSE "") \o ReprStr(items[k][1]) \o ": " \o PyRepr(items[k][2])
         \o ReprItems(items, k + 1)

ReprElems(items, k) ==
    IF k > Len(items) THEN ""
    ELSE (IF k > 1 THEN ", " ELSE "") \o PyRepr(items[k]) \o ReprElems(items, k + 1)

PyRepr(value) ==
    CASE value.t = "str" -> ReprStr(value.v)
      [] value.t \in {"int", "float"} -> value.v
      [] value.t = "bool" -> (IF value.v THEN "True" ELSE "False")
      [] value.t = "null" -> "None"
      [] value.t = "dict" -> "{" \o ReprItems(value.v, 1) \o "}"
      [] value.t = "list" -> "[" \o ReprElems(value.v, 1) \o "]"

\* str(b): a str is itself, anything else its repr
PyStr(value) == IF value.t = "str" THEN value.v ELSE PyRepr(value)

\* f"{status_codes}" for a list of int
RECURSIVE ReprIntList(_, _)
ReprIntList(codes, k) ==
    IF k > Len(codes) THEN ""
    ELSE (IF k > 1 THEN ", " ELSE "") \o ToString(codes[k]) \o ReprIntList(codes, k + 1)

(***************************************************************************)
(* IdempotencyChecker._check_idempotency_violations                        *)
(* A snapshot: [status_code, headers (dict items in order), body (value)]  *)
(***************************************************************************)
dynamic_headers == {"date", "last-modified", "etag", "x-request-id"}

\* the generator of line 113: the items of r['headers'] whose lowered name is
\* not a dynamic header, in dict order (the order they are added to the set)
ComparedItems(headers) == SelectSeq(headers, LAMBDA kv : Lower(kv[1]) \notin dynamic_headers)

Range(seq) == {seq[i] : i \in 1..Len(seq)}

\* the comparison set of one snapshot
ComparedSet(headers) == Range(ComparedItems(headers))

HashValues == {0, 1}

\* tuple(h) for the set h built by adding `items` in order: a set is iterated
\* in hash-table order, and entries whose hashes collide sit in the order they
\* were added. The hashes are the process's (hash_seed).
RECURSIVE IterFrom(_, _)
IterFrom(items, hs) ==
    IF hs = {} THEN <<>>
    ELSE LET h == CHOOSE x \in hs : \A y \in hs : x <= y
         IN SelectSeq(items, LAMBDA kv : hash_seed[kv] = h) \o IterFrom(items, hs \ {h})

SetAsTuple(items) == IterFrom(items, HashValues)

StatusCodes(rs) == [i \in 1..Len(rs) |-> rs[i].status_code]

\* a slip: no test of how many distinct codes there are
StatusViolationAlways(rs) ==
    <<"Inconsistent status codes: [" \o ReprIntList(StatusCodes(rs), 1) \o "]">>

\* a slip: the message lists the distinct codes (the set), not the sequence
RECURSIVE SortedCodes(_)
SortedCodes(cs) ==
    IF cs = {} THEN <<>>
    ELSE LET m == CHOOSE x \in cs : \A y \in cs : x <= y
         IN <<m>> \o SortedCodes(cs \ {m})

StatusViolationDistinct(rs) ==
    IF Cardinality(Range(StatusCodes(rs))) > 1
    THEN <<"Inconsistent status codes: ["
           \o ReprIntList(SortedCodes(Range(StatusCodes(rs))), 1) \o "]">>
    ELSE <<>>

\* lines 102-104
StatusViolation(rs) ==
    IF Cardinality(Range(StatusCodes(rs))) > 1
    THEN <<"Inconsistent status codes: [" \o ReprIntList(StatusCodes(rs), 1) \o "]">>
    ELSE <<>>

\* the body check made to depend on the status check: skipped once the codes differ
BodyViolationUnlessStatus(rs) ==
    IF StatusViolation(rs) = <<>> /\ Cardinality({PyStr(rs[i].body) : i \in 1..Len(rs)}) > 1
    THEN <<"Inconsistent response bodies">>
    ELSE <<>>

\* lines 107-109
BodyViolation(rs) ==
    IF Cardinality({PyStr(rs[i].body) : i \in 1..Len(rs)}) > 1
    THEN <<"Inconsistent response bodies">>
    ELSE <<>>

\* lines 112-116
HeaderViolation(rs) ==
    IF Cardinality({SetAsTuple(ComparedItems(rs[i].headers)) : i \in 1..Len(rs)}) > 1
    THEN <<"Inconsistent headers">>
    ELSE <<>>

_check_idempotency_violations(rs) ==
    IF rs = <<>> THEN <<>>
    ELSE StatusViolation(rs) \o BodyViolation(rs) \o HeaderViolation(rs)

(***************************************************************************)
(* The HTTP peer: what session.request can return or raise                 *)
(* A requests.Response: [status_code, headers (items in order), text,      *)
(* json (what response.json() parses the text to, or Malformed)]           *)
(***************************************************************************)
Malformed == [t |-> "malformed", v |-> None]

NoResponse == [status_code |-> 0, headers |-> <<>>, text |-> "", json |-> Malformed]

JSON_HEADERS == << <<"Content-Type", "application/json">> >>

HTML_HEADERS == << <<"Content-Type", "text/html">> >>

ServerResponses ==
    { [status_code |-> 200, headers |-> JSON_HEADERS, text |-> "{\"ok\": true}",
       json |-> DictV(<< <<"ok", BoolV(TRUE)>> >>)],
      [status_code |-> 201, headers |-> JSON_HEADERS, text |-> "{\"ok\": true}",
       json |-> DictV(<< <<"ok", BoolV(TRUE)>> >>)],
      [status_code |-> 200, headers |-> HTML_HEADERS, text |-> "<p>hello</p>",
       json |-> Malformed],
      [status_code |-> 200, headers |-> HTML_HEADERS, text |-> "<div id=\"item42\">hello</div>",
       json |-> Malformed],
      [status_code |-> 200, headers |-> JSON_HEADERS, text |-> "<p>hello</p>",
       json |-> Malformed] }

TransportErrors == {"Connection refused"}

\* CaseInsensitiveDict.get(name, default)
HeaderGet(headers, name, default) ==
    IF \E i \in 1..Len(headers) : Lower(headers[i][1]) = Lower(name)
    THEN headers[CHOOSE i \in 1..Len(headers) : Lower(headers[i][1]) = Lower(name)][2]
    ELSE default

StartsWith(s, prefix) == Len(s) >= Len(prefix) /\ SubSeq(s, 1, Len(prefix)) = prefix

(***************************************************************************)
(* TestCase and TestResult (models/test_case.py)                           *)
(***************************************************************************)
BODY_METHODS == {"POST", "PUT", "PATCH"}

TestCase(name, method, headers, body, html_validation) ==
    [name |-> name, method |-> method, headers |-> headers, body |-> body,
     html_validation |-> html_validation]

TS_STRING == "2024-01-01T00:00:00Z"

TestCases ==
    { TestCase("Read Resource", "GET", <<>>, NullV, FALSE),
      TestCase("Get HTML Page", "GET", <<>>, NullV, TRUE),
      TestCase("Noisy Parameters Test", "POST", << <<"X-Timestamp", TS_STRING>> >>,
               DictV(<< <<"created_at", StrV(TS_STRING)>> >>), TRUE),
      TestCase("Create Resource", "POST", << <<"Content-Type", "application/json">> >>,
               DictV(<< <<"name", StrV("Test Resource")>> >>), FALSE),
      TestCase("Huge Number", "POST", <<>>,
               DictV(<< <<"count", IntV("100000000000000000")>> >>), FALSE),
      TestCase("Large Payload Test", "POST", << <<"Content-Type", "application/json">> >>,
               DictV(<< <<"data", ListV(<<StrV("item0"), StrV("item1")>>)>> >>), FALSE) }

NoTestCase == TestCase("", "GET", <<>>, NullV, FALSE)

TestResult(test_case, success, error_message, noisy_parameters_found, idempotency_violations) ==
    [test_case |-> test_case, success |-> success, error_message |-> error_message,
     noisy_parameters_found |-> noisy_parameters_found,
     idempotency_violations |-> idempotency_violations]

NoResult == TestResult(NoTestCase, TRUE, None, <<>>, <<>>)

(***************************************************************************)
(* dict helpers                                                            *)
(***************************************************************************)
HasKey(headers, name) == \E i \in 1..Len(headers) : headers[i][1] = name

\* headers[name] = value on a dict: replace in place, or add at the end
SetItem(headers, name, value) ==
    IF HasKey(headers, name)
    THEN [i \in 1..Len(headers) |->
            IF headers[i][1] = name THEN <<name, value>> ELSE headers[i]]
    ELSE Append(headers, <<name, value>>)

(***************************************************************************)
(* BeautifulSoup(html_content, 'html.parser') for documents made of        *)
(* start tags <name attr="value" ...>, end tags </name> and text (no       *)
(* comments, entities, doctype, <pre> or <textarea>).  The soup is the     *)
(* sequence of its nodes in document order, each with its depth.           *)
(***************************************************************************)
\* first index >= i at which a character of chars stands, Len(s) + 1 if none
FindAny(s, chars, i) ==
    IF \E j \in i..Len(s) : InChars(Char(s, j), chars)
    THEN CHOOSE j \in i..Len(s) :
            /\ InChars(Char(s, j), chars)
            /\ \A k \in i..(j - 1) : ~InChars(Char(s, k), chars)
    ELSE Len(s) + 1

\* first index >= i at which no character of chars stands
SkipAll(s, chars, i) ==
    IF \E j \in i..Len(s) : ~InChars(Char(s, j), chars)
    THEN CHOOSE j \in i..Len(s) :
            /\ ~InChars(Char(s, j), chars)
            /\ \A k \in i..(j - 1) : InChars(Char(s, k), chars)
    ELSE Len(s) + 1

\* str.strip()
Strip(s) ==
    LET a == SkipAll(s, WHITESPACE, 1)
    IN IF a > Len(s) THEN ""
       ELSE SubSeq(s, a, CHOOSE b \in a..Len(s) :
                            /\ ~InChars(Char(s, b), WHITESPACE)
                            /\ \A k \in (b + 1)..Len(s) : InChars(Char(s, k), WHITESPACE))

\* str.split(): the whitespace-separated words
RECURSIVE SplitFrom(_, _)
SplitFrom(s, i) ==
    LET a == SkipAll(s, WHITESPACE, i)
        b == FindAny(s, WHITESPACE, a)
    IN IF a > Len(s) THEN <<>> ELSE <<SubSeq(s, a, b - 1)>> \o SplitFrom(s, b)

Split(s) == SplitFrom(s, 1)

\* the attributes of a start tag, from index i of its markup m: name="value"
\* or a bare name (value ""); a repeated name keeps its place, the last
\* value wins
RECURSIVE AttrsFrom(_, _, _)
AttrsFrom(m, i, acc) ==
    LET a == SkipAll(m, WHITESPACE, i)
        b == FindAny(m, " \t\n\r=", a)
        name == Lower(SubSeq(m, a, b - 1))
        quoted == b + 1 <= Len(m) /\ Char(m, b) = "=" /\ Char(m, b + 1) = "\""
        c == FindAny(m, "\"", b + 2)
    IN IF a > Len(m) THEN acc
       ELSE IF quoted THEN AttrsFrom(m, c + 1, SetItem(acc, name, SubSeq(m, b + 2, c - 1)))
       ELSE AttrsFrom(m, b + 1, SetItem(acc, name, ""))

\* the parser's events: start tag, end tag, data
RECURSIVE Tokens(_)
Tokens(s) ==
    IF s = "" THEN <<>>
    ELSE IF Char(s, 1) = "<"
    THEN LET j == FindAny(s, ">", 1)
             closed == j > 2 /\ Char(s, j - 1) = "/"
             m == SubSeq(s, 2, IF closed THEN j - 2 ELSE j - 1)
             e == FindAny(m, WHITESPACE, 1)
         IN (IF Len(m) > 0 /\ Char(m, 1) = "/"
             THEN <<[kind |-> "end", name |-> Lower(Strip(Rest(m))), attrs |-> <<>>,
                     text |-> "", closed |-> FALSE]>>
             ELSE <<[kind |-> "start", name |-> Lower(SubSeq(m, 1, e - 1)),
                     attrs |-> AttrsFrom(m, e, <<>>), text |-> "", closed |-> closed]>>)
            \o Tokens(SubSeq(s, j + 1, Len(s)))
    ELSE LET j == FindAny(s, "<", 1)
         IN <<[kind |-> "data", name |-> "", attrs |-> <<>>, text |-> SubSeq(s, 1, j - 1),
               closed |-> FALSE]>>
            \o Tokens(SubSeq(s, j, Len(s)))

\* HTMLTreeBuilder.empty_element_tags
EMPTY_ELEMENT_TAGS ==
    {"area", "base", "br", "col", "embed", "hr", "img", "input", "keygen", "link",
     "menuitem", "meta", "param", "source", "track", "wbr", "basefont", "bgsound",
     "command", "frame", "image", "isindex", "nextid", "spacer"}

\* HTMLTreeBuilder.DEFAULT_CDATA_LIST_ATTRIBUTES: the attributes whose value
\* is kept as the list of its words
IsCdataList(tag, attr) ==
    \/ attr \in {"class", "accesskey", "dropzone"}
    \/ tag \in {"a", "link"} /\ attr \in {"rel", "rev"}
    \/ tag \in {"td", "th"} /\ attr = "headers"
    \/ tag = "form" /\ attr = "accept-charset"
    \/ tag = "object" /\ attr = "archive"
    \/ tag = "area" /\ attr = "rel"
    \/ tag = "icon" /\ attr = "sizes"
    \/ tag = "iframe" /\ attr = "sandbox"
    \/ tag = "output" /\ attr = "for"

\* tag.attrs: each value a str or a list of str
TagAttrs(tag, attrs) ==
    [i \in 1..Len(attrs) |->
        <<attrs[i][1],
          IF IsCdataList(tag, attrs[i][1])
          THEN [t |-> "list", v |-> Split(attrs[i][2])]
          ELSE [t |-> "str", v |-> attrs[i][2]]>>]

\* _popToTag: close the open tags down to the most recent one called name
PopToTag(stack, name) ==
    IF \E i \in 1..Len(stack) : stack[i] = name
    THEN SubSeq(stack, 1, (CHOOSE i \in 1..Len(stack) :
                    /\ stack[i] = name
                    /\ \A j \in (i + 1)..Len(stack) : stack[j] # name) - 1)
    ELSE stack

\* endData: a string of ASCII spaces only is kept as one newline or one space
EndData(text) ==
    IF AllIn(text, WHITESPACE)
    THEN (IF InChars("\n", text) THEN "\n" ELSE " ")
    ELSE text

TagNode(name, attrs, depth) ==
    [kind |-> "tag", name |-> name, attrs |-> attrs, text |-> "", depth |-> depth]

TextNode(text, depth) ==
    [kind |-> "text", name |-> "", attrs |-> <<>>, text |-> text, depth |-> depth]

RECURSIVE BuildFrom(_, _, _)
BuildFrom(tokens, k, stack) ==
    IF k > Len(tokens) THEN <<>>
    ELSE LET tk == tokens[k]
         IN CASE tk.kind = "start" ->
                    <<TagNode(tk.name, TagAttrs(tk.name, tk.attrs), Len(stack) + 1)>>
                    \o BuildFrom(tokens, k + 1,
                                 IF tk.closed \/ tk.name \in EMPTY_ELEMENT_TAGS
                                 THEN stack ELSE Append(stack, tk.name))
              [] tk.kind = "end" -> BuildFrom(tokens, k + 1, PopToTag(stack, tk.name))
              [] OTHER -> <<TextNode(EndData(tk.text), Len(stack) + 1)>>
                          \o BuildFrom(tokens, k + 1, stack)

BeautifulSoup(html_content) == BuildFrom(Tokens(html_content), 1, <<>>)

\* soup.stripped_strings
stripped_strings(soup) ==
    LET texts == SelectSeq(soup, LAMBDA n : n.kind = "text" /\ Strip(n.text) # "")
    IN [i \in 1..Len(texts) |-> Strip(texts[i].text)]

\* soup.find_all(True): the indices of the tags, in document order
RECURSIVE TagsFrom(_, _)
TagsFrom(soup, k) ==
    IF k > Len(soup) THEN <<>>
    ELSE (IF soup[k].kind = "tag" THEN <<k>> ELSE <<>>) \o TagsFrom(soup, k + 1)

find_all(soup, name) ==
    SelectSeq(TagsFrom(soup, 1), LAMBDA k : name = "*" \/ soup[k].name = name)

\* the indices of the descendants of the tag at index k
Descendants(soup, k) ==
    {j \in (k + 1)..Len(soup) : \A i \in (k + 1)..j : soup[i].depth > soup[k].depth}

\* tag.find(name, attrs): is there a descendant tag called name having every
\* attribute of attrs with that value
Finds(soup, k, name, attrs) ==
    \E j \in Descendants(soup, k) :
        /\ soup[j].kind = "tag"
        /\ soup[j].name = name
        /\ \A a \in attrs : \E i \in 1..Len(soup[j].attrs) :
                soup[j].attrs[i] = <<a[1], [t |-> "str", v |-> a[2]]>>

(***************************************************************************)
(* HTMLValidator (core/html_validator.py)                                  *)
(***************************************************************************)
HEX == "0123456789abcdef"

ALNUM_CHARS == UPPER \o LOWERCASE \o DIGITS

\* a regex of fixed width: one character class per position
Repeat(class, n) == [i \in 1..n |-> class]

Literal(text) == [i \in 1..Len(text) |-> Char(text, i)]

\* the patterns with the csrf entry left out
DynamicPatternsWithoutCsrf ==
    << [name |-> "timestamp",
        pattern |-> Repeat(DIGITS, 4) \o <<"-">> \o Repeat(DIGITS, 2) \o <<"-">>
                    \o Repeat(DIGITS, 2) \o <<"T">> \o Repeat(DIGITS, 2) \o <<":">>
                    \o Repeat(DIGITS, 2) \o <<":">> \o Repeat(DIGITS, 2)],
       [name |-> "id",
        pattern |-> Repeat(HEX, 8) \o <<"-">> \o Repeat(HEX, 4) \o <<"-">> \o Repeat(HEX, 4)
                    \o <<"-">> \o Repeat(HEX, 4) \o <<"-">> \o Repeat(HEX, 12)],
       [name |-> "random", pattern |-> Repeat(ALNUM_CHARS, 32)],
       [name |-> "session", pattern |-> Literal("session_id")] >>

\* HTMLValidator.DYNAMIC_PATTERNS, in declaration order
DYNAMIC_PATTERNS ==
    << [name |-> "timestamp",
        pattern |-> Repeat(DIGITS, 4) \o <<"-">> \o Repeat(DIGITS, 2) \o <<"-">>
                    \o Repeat(DIGITS, 2) \o <<"T">> \o Repeat(DIGITS, 2) \o <<":">>
                    \o Repeat(DIGITS, 2) \o <<":">> \o Repeat(DIGITS, 2)],
       [name |-> "id",
        pattern |-> Repeat(HEX, 8) \o <<"-">> \o Repeat(HEX, 4) \o <<"-">> \o Repeat(HEX, 4)
                    \o <<"-">> \o Repeat(HEX, 4) \o <<"-">> \o Repeat(HEX, 12)],
       [name |-> "random", pattern |-> Repeat(ALNUM_CHARS, 32)],
       [name |-> "csrf", pattern |-> Literal("csrf_token")],
       [name |-> "session", pattern |-> Literal("session_id")] >>

\* re.match(pattern, text[i-1:])
MatchAt(pattern, text, i) ==
    /\ i + Len(pattern) - 1 <= Len(text)
    /\ \A k \in 1..Len(pattern) : InChars(Char(text, i + k - 1), pattern[k])

\* re.search(pattern, text)
Search(pattern, text) == \E i \in 1..Len(text) : MatchAt(pattern, text, i)

IsDynamic(text) == \E i \in 1..Len(DYNAMIC_PATTERNS) : Search(DYNAMIC_PATTERNS[i].pattern, text)

\* the name of the first pattern found in text (the loop breaks there)
DynamicCategory(text) ==
    DYNAMIC_PATTERNS[CHOOSE i \in 1..Len(DYNAMIC_PATTERNS) :
        /\ Search(DYNAMIC_PATTERNS[i].pattern, text)
        /\ \A j \in 1..(i - 1) : ~Search(DYNAMIC_PATTERNS[j].pattern, text)].name

\* text[:n]
Prefix(text, n) == SubSeq(text, 1, Min(n, Len(text)))

\* the concatenation of the lists f[1], ..., f[n]
RECURSIVE Concat(_, _)
Concat(f, n) == IF n = 0 THEN <<>> ELSE Concat(f, n - 1) \o f[n]

\* the issues of the attributes of one tag in the dynamic-content scan
DynamicAttrIssues(tag) ==
    Concat([i \in 1..Len(tag.attrs) |->
                LET attr_name == tag.attrs[i][1]
                    attr_value == tag.attrs[i][2]
                IN IF attr_value.t = "str" /\ IsDynamic(attr_value.v)
                   THEN <<"Dynamic content found: " \o DynamicCategory(attr_value.v)
                          \o " in attribute " \o attr_name \o " of tag " \o tag.name
                          \o ": " \o Prefix(attr_value.v, 50) \o "...">>
                   ELSE <<>>],
           Len(tag.attrs))

_check_dynamic_content(soup) ==
    LET texts == stripped_strings(soup)
        tags == find_all(soup, "*")
    IN Concat([i \in 1..Len(texts) |->
                    IF IsDynamic(texts[i])
                    THEN <<"Dynamic content found: " \o DynamicCategory(texts[i])
                           \o " in text: " \o Prefix(texts[i], 50) \o "...">>
                    ELSE <<>>],
              Len(texts))
       \o Concat([i \in 1..Len(tags) |-> DynamicAttrIssues(soup[tags[i]])], Len(tags))

UNSTABLE_CLASS_PARTS == {"dynamic", "random", "temp"}

\* re.match(r'.*[0-9]+$', attr_value): `.` matches no newline, `$` also
\* matches before a final newline
EndsInDigits(attr_value) ==
    \E u \in DollarEnds(attr_value) :
        /\ Len(u) > 0
        /\ InChars(Char(u, Len(u)), DIGITS)
        /\ ~InChars("\n", u)

UnstableAttrIssues(tag) ==
    Concat([i \in 1..Len(tag.attrs) |->
                LET attr_name == tag.attrs[i][1]
                    attr_value == tag.attrs[i][2]
                    unstable == SelectSeq(attr_value.v,
                                    LAMBDA class_name :
                                        \E part \in UNSTABLE_CLASS_PARTS : Contains(class_name, part))
                IN (IF attr_name = "class" /\ attr_value.t = "list"
                    THEN [j \in 1..Len(unstable) |-> "Unstable class name found: " \o unstable[j]]
                    ELSE <<>>)
                   \o (IF attr_name = "id" /\ attr_value.t = "str" /\ EndsInDigits(attr_value.v)
                       THEN <<"Unstable ID found: " \o attr_value.v>>
                       ELSE <<>>)],
           Len(tag.attrs))

_check_unstable_attributes(soup) ==
    LET tags == find_all(soup, "*")
    IN Concat([i \in 1..Len(tags) |-> UnstableAttrIssues(soup[tags[i]])], Len(tags))

\* a slip: a table is flagged only when it has neither thead nor tbody
StructureBothMissing(soup) ==
    LET tables == find_all(soup, "table")
        forms == find_all(soup, "form")
    IN Concat([i \in 1..Len(tables) |->
                    IF ~Finds(soup, tables[i], "thead", {}) /\ ~Finds(soup, tables[i], "tbody", {})
                    THEN <<"Table missing thead or tbody elements">>
                    ELSE <<>>],
              Len(tables))
       \o Concat([i \in 1..Len(forms) |->
                    IF ~Finds(soup, forms[i], "input",
                              {<<"type", "hidden">>, <<"name", "csrf_token">>})
                    THEN <<"Form missing CSRF token">>
                    ELSE <<>>],
                 Len(forms))

_check_unstable_structure(soup) ==
    LET tables == find_all(soup, "table")
        forms == find_all(soup, "form")
    IN Concat([i \in 1..Len(tables) |->
                    IF ~Finds(soup, tables[i], "thead", {}) \/ ~Finds(soup, tables[i], "tbody", {})
                    THEN <<"Table missing thead or tbody elements">>
                    ELSE <<>>],
              Len(tables))
       \o Concat([i \in 1..Len(forms) |->
                    IF ~Finds(soup, forms[i], "input",
                              {<<"type", "hidden">>, <<"name", "csrf_token">>})
                    THEN <<"Form missing CSRF token">>
                    ELSE <<>>],
                 Len(forms))

\* re.match(r'\d{1,2}:\d{2}:\d{2}', text)
ClockPrefix(text) ==
    \E n \in 1..2 :
        MatchAt(Repeat(DIGITS, n) \o <<":">> \o Repeat(DIGITS, 2) \o <<":">> \o Repeat(DIGITS, 2),
                text, 1)

\* re.match(r'^\d+$', text)
OnlyDigits(text) == \E u \in DollarEnds(text) : Len(u) > 0 /\ AllIn(u, DIGITS)

_check_unstable_text(soup) ==
    LET texts == stripped_strings(soup)
    IN Concat([i \in 1..Len(texts) |->
                    (IF ClockPrefix(texts[i])
                     THEN <<"Timestamp found in text: " \o texts[i]>> ELSE <<>>)
                    \o (IF OnlyDigits(texts[i])
                        THEN <<"Dynamic number found in text: " \o texts[i]>> ELSE <<>>)],
              Len(texts))

validate_html(html_content, tc) ==
    IF html_content = "" THEN [success |-> TRUE, issues |-> <<>>]
    ELSE LET soup == BeautifulSoup(html_content)
             issues == _check_dynamic_content(soup) \o _check_unstable_attributes(soup)
                       \o _check_unstable_structure(soup) \o _check_unstable_text(soup)
         IN [success |-> Len(issues) = 0, issues |-> issues]

\* HTMLValidator.ignored_attributes: a set of literal names
ignored_attributes ==
    {"id", "class", "data-*", "aria-*", "style", "src", "href", "alt", "title", "datetime"}

\* lines 134-137: del tag[attr] for the attributes whose name is in the set
RemoveIgnored(soup) ==
    [k \in 1..Len(soup) |->
        [soup[k] EXCEPT !.attrs = SelectSeq(soup[k].attrs,
                                            LAMBDA a : a[1] \notin ignored_attributes)]]

\* one attribute as str(soup) writes it; a list value is joined by spaces
RECURSIVE JoinWords(_, _)
JoinWords(words, k) ==
    IF k > Len(words) THEN ""
    ELSE (IF k > 1 THEN " " ELSE "") \o words[k] \o JoinWords(words, k + 1)

RECURSIVE AttrsText(_, _)
AttrsText(attrs, k) ==
    IF k > Len(attrs) THEN ""
    ELSE " " \o attrs[k][1] \o "=\""
         \o (IF attrs[k][2].t = "list" THEN JoinWords(attrs[k][2].v, 1) ELSE attrs[k][2].v)
         \o "\"" \o AttrsText(attrs, k + 1)

\* the end tags of the open elements at depth d or deeper, innermost first
RECURSIVE CloseDown(_, _)
CloseDown(open, d) ==
    IF open # <<>> /\ open[Len(open)][2] >= d
    THEN "</" \o open[Len(open)][1] \o ">" \o CloseDown(SubSeq(open, 1, Len(open) - 1), d)
    ELSE ""

\* str(soup) from node k on; open is the stack of <<name, depth>> of the
\* elements not closed yet.  An empty-element tag is written <name/>.
RECURSIVE DecodeFrom(_, _, _)
DecodeFrom(soup, k, open) ==
    IF k > Len(soup) THEN CloseDown(open, 0)
    ELSE LET n == soup[k]
             kept == SelectSeq(open, LAMBDA o : o[2] < n.depth)
         IN CloseDown(open, n.depth)
            \o (IF n.kind = "text" THEN n.text \o DecodeFrom(soup, k + 1, kept)
                ELSE IF n.name \in EMPTY_ELEMENT_TAGS
                THEN "<" \o n.name \o AttrsText(n.attrs, 1) \o "/>"
                     \o DecodeFrom(soup, k + 1, kept)
                ELSE "<" \o n.name \o AttrsText(n.attrs, 1) \o ">"
                     \o DecodeFrom(soup, k + 1, Append(kept, <<n.name, n.depth>>)))

Decode(soup) == DecodeFrom(soup, 1, <<>>)

\* HTMLValidator.sanitize_html.  stripped_strings yields plain str objects
\* (str.strip() of each string), so text.replace_with on line 145 raises
\* AttributeError for the first text in which a pattern is found.
sanitize_html(html_content) ==
    LET soup == RemoveIgnored(BeautifulSoup(html_content))
        texts == stripped_strings(soup)
    IN IF \E i \in 1..Len(texts) : IsDynamic(texts[i])
       THEN Raises("'str' object has no attribute 'replace_with'")
       ELSE [exc |-> FALSE, msg |-> None, out |-> Decode(soup)]

(***************************************************************************)
(* IdempotencyChecker._validate_html_responses                             *)
(***************************************************************************)
\* the issues of response i, as _validate_html_responses words them
ResponseIssues(i, validation_result) ==
    IF ~validation_result.success
    THEN [j \in 1..Len(validation_result.issues) |->
            "HTML validation issue in response " \o ToString(i) \o ": "
            \o validation_result.issues[j]]
    ELSE <<>>

\* the loop from response k on; `response['test_case']` is a KeyError, since a
\* snapshot holds only status_code, headers and body
RECURSIVE ValidateHtmlFrom(_, _)
ValidateHtmlFrom(rs, k) ==
    IF k > Len(rs) THEN Returns(<<>>)
    ELSE IF rs[k].body.t = "str"
         THEN (IF "test_case" \notin DOMAIN rs[k] THEN Raises("'test_case'")
               ELSE Extend(Returns(ResponseIssues(k - 1, validate_html(rs[k].body.v, rs[k].test_case))),
                           ValidateHtmlFrom(rs, k + 1)))
         ELSE ValidateHtmlFrom(rs, k + 1)

_validate_html_responses(rs) == ValidateHtmlFrom(rs, 1)

(***************************************************************************)
(* IdempotencyChecker.check_test_case, driven by the loop of cli.main      *)
(***************************************************************************)
num_executions == 3

\* one step of the current check as an observer sees it: what ran, for which
\* attempt, whether it returned (ok) or raised, and the value it handled
Event(kind, k, ok, data) == [kind |-> kind, k |-> k, ok |-> ok, data |-> data]

MaxBatch == 2

\* the test-case files the batch specification loads
BatchCases == {tc \in TestCases : tc.name \in {"Get HTML Page", "Huge Number"}}

Batches == UNION { [1..n -> BatchCases] : n \in 1..MaxBatch }

BatchPeer ==
    {r \in ServerResponses :
        r.status_code = 200 /\ (r.json # Malformed \/ (r.headers = HTML_HEADERS /\ r.text = "<p>hello</p>"))}

\* the header items the peer's responses can carry
PairsOf(rs) == UNION {Range(r.headers) : r \in rs}

test_case == IF idx <= Len(test_cases) THEN test_cases[idx] ELSE NoTestCase

Init ==
    /\ test_cases \in {<<tc>> : tc \in TestCases}
    /\ idx = 1
    /\ test_results = <<>>
    /\ pc = "idle"
    /\ result = NoResult
    /\ noisy_params = <<>>
    /\ violations = <<>>
    /\ responses = <<>>
    /\ response = NoResponse
    /\ exception = None
    /\ events = <<>>
    /\ peer = ServerResponses
    /\ hash_seed \in [PairsOf(peer) -> HashValues]
    /\ fin = None
    /\ fout = None

\* cli.main line 84 calls check_test_case; lines 19-26 construct the result
Start ==
    /\ pc = "idle"
    /\ idx <= Len(test_cases)
    /\ result' = TestResult(test_case, TRUE, None, <<>>, <<>>)
    /\ noisy_params' = <<>>
    /\ violations' = <<>>
    /\ responses' = <<>>
    /\ response' = NoResponse
    /\ exception' = None
    /\ events' = <<>>
    /\ pc' = "analyze"
    /\ UNCHANGED <<test_cases, idx, test_results, peer, hash_seed, fin, fout>>

\* lines 30-31
Analyze ==
    /\ pc = "analyze"
    /\ LET r == analyze_parameters(test_case) IN
        /\ exception' = (IF r.exc THEN r.msg ELSE exception)
        /\ noisy_params' = (IF r.exc THEN noisy_params ELSE r.out)
        /\ result' = (IF r.exc THEN result
                      ELSE [result EXCEPT !.noisy_parameters_found = r.out])
        /\ pc' = (IF r.exc THEN "except" ELSE "request")
        /\ events' = Append(events, Event("analyze", 0, ~r.exc, <<>>))
    /\ UNCHANGED <<test_cases, idx, test_results, violations, responses, response,
                   peer, hash_seed, fin, fout>>

\* line 64, _execute_request: session.request returns a response or raises
Request ==
    /\ pc = "request"
    /\ \/ \E r \in peer :
            /\ response' = r
            /\ pc' = "capture"
            /\ events' = Append(events, Event("request", Len(responses) + 1, TRUE, r))
            /\ UNCHANGED exception
       \/ \E e \in TransportErrors :
            /\ exception' = e
            /\ pc' = "except"
            /\ events' = Append(events, Event("request", Len(responses) + 1, FALSE, e))
            /\ UNCHANGED response
    /\ UNCHANGED <<test_cases, idx, test_results, result, noisy_params, violations,
                   responses, peer, hash_seed, fin, fout>>

\* line 68: response.json() if the content type starts with application/json
\* else response.text
SnapshotBody(r) ==
    IF StartsWith(HeaderGet(r.headers, "content-type", ""), "application/json")
    THEN r.json
    ELSE StrV(r.text)

Snapshot(r) == [status_code |-> r.status_code, headers |-> r.headers, body |-> SnapshotBody(r)]

LoopDoneEarly(n) == n >= num_executions - 1

LoopDone(n) == n >= num_executions

\* lines 65-70: build the snapshot (response.json() may raise), append, sleep;
\* after the last iteration line 72 returns to line 34
Capture ==
    /\ pc = "capture"
    /\ LET ok == SnapshotBody(response) # Malformed
           k == Len(responses) + 1
       IN /\ exception' = (IF ok THEN exception ELSE "Expecting value")
          /\ responses' = (IF ok THEN Append(responses, Snapshot(response)) ELSE responses)
          /\ events' = Append(events, Event("snapshot", k, ok,
                                             IF ok THEN Snapshot(response) ELSE <<>>))
          /\ pc' = (IF ~ok THEN "except"
                    ELSE IF LoopDone(k) THEN "compare" ELSE "request")
    /\ UNCHANGED <<test_cases, idx, test_results, result, noisy_params, violations,
                   response, peer, hash_seed, fin, fout>>

\* lines 37-38; `violations` and result.idempotency_violations are one list
Compare ==
    /\ pc = "compare"
    /\ violations' = _check_idempotency_violations(responses)
    /\ result' = [result EXCEPT !.idempotency_violations = violations']
    /\ events' = Append(events, Event("compare", Len(responses), TRUE, responses))
    /\ pc' = IF test_case.html_validation THEN "html" ELSE "finalize"
    /\ UNCHANGED <<test_cases, idx, test_results, noisy_params, responses, response,
                   exception, peer, hash_seed, fin, fout>>

\* lines 41-43: extend() grows the list both names refer to
ValidateHtml ==
    /\ pc = "html"
    /\ LET r == _validate_html_responses(responses) IN
        /\ exception' = (IF r.exc THEN r.msg ELSE exception)
        /\ violations' = (IF r.exc THEN violations ELSE violations \o r.out)
        /\ result' = (IF r.exc THEN result
                      ELSE [result EXCEPT !.idempotency_violations = violations \o r.out])
        /\ pc' = (IF r.exc THEN "except" ELSE "finalize")
        /\ events' = Append(events, Event("validate_html", Len(responses), ~r.exc, <<>>))
    /\ UNCHANGED <<test_cases, idx, test_results, noisy_params, responses, response,
                   peer, hash_seed, fin, fout>>

FinalSuccessIgnoresNoise(vs, ns) == Len(vs) = 0

FinalSuccess(vs, ns) == Len(vs) = 0 /\ Len(ns) = 0

\* line 46
Finalize ==
    /\ pc = "finalize"
    /\ result' = [result EXCEPT !.success = FinalSuccess(violations, noisy_params)]
    /\ pc' = "return"
    /\ UNCHANGED <<test_cases, idx, test_results, noisy_params, violations, responses,
                   response, exception, events, peer, hash_seed, fin, fout>>

CaughtNoMessage(r, e) == [r EXCEPT !.success = FALSE]

CaughtKeepsSuccess(r, e) == [r EXCEPT !.error_message = e]

Caught(r, e) == [r EXCEPT !.success = FALSE, !.error_message = e]

\* lines 48-50
Except ==
    /\ pc = "except"
    /\ result' = Caught(result, exception)
    /\ exception' = None
    /\ pc' = "return"
    /\ UNCHANGED <<test_cases, idx, test_results, noisy_params, violations, responses,
                   response, events, peer, hash_seed, fin, fout>>

\* line 55 returns; cli.main line 85 adds the result and the loop moves on
Return ==
    /\ pc = "return"
    /\ test_results' = Append(test_results, result)
    /\ idx' = idx + 1
    /\ pc' = "idle"
    /\ UNCHANGED <<test_cases, result, noisy_params, violations, responses, response,
                   exception, events, peer, hash_seed, fin, fout>>

\* the positions of check_test_case, each the guard of one action of Next
Statements ==
    {"idle", "analyze", "request", "capture", "compare", "html", "finalize", "except", "return"}

Next ==
    \/ Start
    \/ Analyze
    \/ Request
    \/ Capture
    \/ Compare
    \/ ValidateHtml
    \/ Finalize
    \/ Except
    \/ Return

Spec == Init /\ [][Next]_vars

\* cli.main over a file of several test cases
InitBatch ==
    /\ test_cases \in Batches
    /\ idx = 1
    /\ test_results = <<>>
    /\ pc = "idle"
    /\ result = NoResult
    /\ noisy_params = <<>>
    /\ violations = <<>>
    /\ responses = <<>>
    /\ response = NoResponse
    /\ exception = None
    /\ events = <<>>
    /\ peer = BatchPeer
    /\ hash_seed \in [PairsOf(peer) -> HashValues]
    /\ fin = None
    /\ fout = None

SpecBatch == InitBatch /\ [][Next]_vars

(***************************************************************************)
(* _check_idempotency_violations over lists of snapshots                   *)
(***************************************************************************)
MaxSnapshots == 3

H_BASE == << <<"Content-Type", "application/json">>, <<"Server", "nginx">> >>

CmpHeaders ==
    { H_BASE,
      << H_BASE[2], H_BASE[1] >>,
      H_BASE \o << <<"Date", "Mon, 01 Jan 2024 00:00:00 GMT">> >>,
      H_BASE \o << <<"DATE", "Mon, 01 Jan 2024 00:00:01 GMT">> >>,
      << H_BASE[1] >> }

CmpBody == DictV(<< <<"id", IntV("1")>> >>)

CmpBodies == {CmpBody, StrV("{'id': 1}"), DictV(<< <<"id", IntV("2")>> >>)}

CmpSnapshots ==
    {[status_code |-> c, headers |-> H_BASE, body |-> CmpBody] : c \in {200, 201}}
    \cup {[status_code |-> 200, headers |-> h, body |-> CmpBody] : h \in CmpHeaders}
    \cup {[status_code |-> 200, headers |-> H_BASE, body |-> b] : b \in CmpBodies}

SnapshotLists == UNION { [1..n -> CmpSnapshots] : n \in 1..MaxSnapshots }

InitCompare ==
    /\ test_cases = <<>>
    /\ idx = 1
    /\ test_results = <<>>
    /\ pc = "call"
    /\ result = NoResult
    /\ noisy_params = <<>>
    /\ violations = <<>>
    /\ responses = <<>>
    /\ response = NoResponse
    /\ exception = None
    /\ events = <<>>
    /\ peer = {}
    /\ hash_seed \in [UNION {ComparedSet(h) : h \in CmpHeaders} -> HashValues]
    /\ fin \in SnapshotLists
    /\ fout = <<>>

CallCompare ==
    /\ pc = "call"
    /\ fout' = _check_idempotency_violations(fin)
    /\ pc' = "returned"
    /\ UNCHANGED <<test_cases, idx, test_results, result, noisy_params, violations,
                   responses, response, exception, events, peer, hash_seed, fin>>

SpecCompare == InitCompare /\ [][CallCompare]_vars

AllIdentical(rs) == \A i, j \in 1..Len(rs) : rs[i] = rs[j]

\* C5: compare over a list of identical snapshots yields no violation.
C5_IdenticalSnapshotsNoViolation ==
    (pc = "returned" /\ AllIdentical(fin)) => fout = <<>>

\* three identical snapshots with two compared headers were compared
C5_Witness ==
    /\ pc = "returned"
    /\ Len(fin) = 3
    /\ AllIdentical(fin)
    /\ Cardinality(ComparedSet(fin[1].headers)) = 2

STATUS_PREFIX == "Inconsistent status codes: "

IsStatusViolation(v) == StartsWith(v, STATUS_PREFIX)

\* the codes of the snapshots, in order, as the message is to list them
RECURSIVE Listed(_)
Listed(rs) ==
    IF rs = <<>> THEN ""
    ELSE Listed(SubSeq(rs, 1, Len(rs) - 1)) \o (IF Len(rs) > 1 THEN ", " ELSE "")
         \o ToString(rs[Len(rs)].status_code)

\* C6: with at least two distinct status codes compare yields exactly one
\* status-code violation, whose message lists the codes of all snapshots in
\* execution order with repeats; with equal codes it yields none.
C6_OneStatusViolationListingAll ==
    pc = "returned" =>
        LET hits == SelectSeq(fout, IsStatusViolation)
        IN IF \E i, j \in 1..Len(fin) : fin[i].status_code # fin[j].status_code
           THEN /\ Len(hits) = 1
                /\ hits[1] = STATUS_PREFIX \o "[" \o Listed(fin) \o "]"
                /\ StatusCodes(fin) = <<200, 200, 201>> =>
                        hits[1] = "Inconsistent status codes: [200, 200, 201]"
           ELSE hits = <<>>

\* the codes 200, 200, 201 were compared
C6_Witness ==
    /\ pc = "returned"
    /\ StatusCodes(fin) = <<200, 200, 201>>
    /\ Len(SelectSeq(fout, IsStatusViolation)) = 1

\* C7: compare emits the header violation if and only if the snapshots'
\* comparison sets (the (name, value) pairs without date, last-modified, etag
\* and x-request-id, names compared ignoring case) are not all equal as sets.
C7_HeaderViolationIffSetsDiffer ==
    pc = "returned" =>
        ("Inconsistent headers" \in Range(fout)
            <=> \E i, j \in 1..Len(fin) :
                    ComparedSet(fin[i].headers) # ComparedSet(fin[j].headers))

BODY_MESSAGE == "Inconsistent response bodies"

HEADER_MESSAGE == "Inconsistent headers"

\* 1, 2, 3 for a status-code, body and header violation; 0 for anything else
KindOf(v) ==
    IF IsStatusViolation(v) THEN 1
    ELSE IF v = BODY_MESSAGE THEN 2
    ELSE IF v = HEADER_MESSAGE THEN 3
    ELSE 0

KindsIn(vs) == {KindOf(vs[i]) : i \in 1..Len(vs)}

\* the snapshots with everything but the headers made equal
OnlyHeaders(rs) ==
    [i \in 1..Len(rs) |-> [status_code |-> 200, headers |-> rs[i].headers, body |-> NullV]]

\* C14: the violation list of compare is a subsequence of [status-code
\* violation, body violation, header violation] in that order with each kind at
\* most once, and each kind is present exactly when its own check fails,
\* whatever the other two checks find: the status kind when the codes differ,
\* the body kind when the str() of the bodies are not all equal, the header
\* kind when the header check alone (codes and bodies made equal) fails.
C14_ChecksIndependentAndOrdered ==
    pc = "returned" =>
        /\ \A i \in 1..Len(fout) : KindOf(fout[i]) \in 1..3
        /\ \A i, j \in 1..Len(fout) : i < j => KindOf(fout[i]) < KindOf(fout[j])
        /\ 1 \in KindsIn(fout)
                <=> \E i, j \in 1..Len(fin) : fin[i].status_code # fin[j].status_code
        /\ 2 \in KindsIn(fout)
                <=> \E i \in 2..Len(fin) : PyStr(fin[i].body) # PyStr(fin[1].body)
        /\ 3 \in KindsIn(fout) <=> HeaderViolation(OnlyHeaders(fin)) # <<>>

\* snapshots differing in code, in body and in headers were compared and all
\* three violations came back
C14_Witness ==
    /\ pc = "returned"
    /\ \E i, j \in 1..Len(fin) : fin[i].status_code # fin[j].status_code
    /\ \E i, j \in 1..Len(fin) : PyStr(fin[i].body) # PyStr(fin[j].body)
    /\ \E i, j \in 1..Len(fin) : ComparedSet(fin[i].headers) # ComparedSet(fin[j].headers)
    /\ Len(fout) = 3

(***************************************************************************)
(* analyze_parameters over test cases with nested bodies                   *)
(***************************************************************************)
MaxItems == 2

AnKeys == {"created_at", "name", "data"}

AnScalars == {StrV(TS_STRING), StrV("Jane Doe"), StrV("session123"), IntV("5")}

AnNested ==
    {DictV(<< <<k, StrV("Jane Doe")>> >>) : k \in {"session_id", "name"}}
    \cup {ListV(<<StrV("Jane Doe")>>),
          ListV(<<StrV("item0"), DictV(<< <<"uuid", StrV(TS_STRING)>> >>)>>)}

AnValues == AnScalars \cup AnNested

\* the dicts of 1..MaxItems items with distinct keys
AnBodies ==
    {DictV(items) : items \in
        {it \in UNION {[1..n -> AnKeys \X AnValues] : n \in 1..MaxItems} :
            \A i, j \in 1..Len(it) : it[i][1] = it[j][1] => i = j}}

AnHeaders ==
    {<<>>,
     << <<"X-Timestamp", TS_STRING>>, <<"authorization", "Bearer test-token">> >>,
     << <<"X-Custom", TS_STRING>>, <<"Cache-Control", "no-cache">>, <<"ETAG", "abc">>,
        <<"X-Timestamp", "plain">> >>}

\* Scenario B of the specification
ScenarioB ==
    DictV(<< <<"data", DictV(<< <<"created_at", StrV(TS_STRING)>>,
                                <<"session_id", StrV("session123")>> >>)>> >>)

\* numbers at and beyond the edges of what datetime.fromtimestamp takes
AnExtremes ==
    {IntV("100000000000000000"), IntV("-100000000000000000"), IntV("253402300800"),
     FloatV("inf"), FloatV("nan"), BoolV(TRUE), IntV("1704067200")}

AnSpecialBodies ==
    {NullV, DictV(<<>>), ScenarioB} \cup {DictV(<< <<"name", v>> >>) : v \in AnExtremes}

AnCases ==
    {TestCase("case", "POST", <<>>, b, FALSE) : b \in AnBodies \cup AnSpecialBodies}
    \cup {TestCase("case", "POST", h, b, FALSE) : h \in AnHeaders, b \in {NullV, ScenarioB}}

InitAnalyze ==
    /\ test_cases = <<>>
    /\ idx = 1
    /\ test_results = <<>>
    /\ pc = "call"
    /\ result = NoResult
    /\ noisy_params = <<>>
    /\ violations = <<>>
    /\ responses = <<>>
    /\ response = NoResponse
    /\ exception = None
    /\ events = <<>>
    /\ peer = {}
    /\ hash_seed = <<>>
    /\ fin \in AnCases
    /\ fout = Returns(<<>>)

CallAnalyze ==
    /\ pc = "call"
    /\ fout' = analyze_parameters(fin)
    /\ pc' = "returned"
    /\ UNCHANGED <<test_cases, idx, test_results, result, noisy_params, violations,
                   responses, response, exception, events, peer, hash_seed, fin>>

SpecAnalyze == InitAnalyze /\ [][CallAnalyze]_vars

\* the findings of the body: those after the header findings
BodyFindings(tc, out) == SubSeq(out, Len(HeaderFindings(tc.headers, 1)) + 1, Len(out))

NoDuplicates(seq) == \A i, j \in 1..Len(seq) : seq[i] = seq[j] => i = j

\* C9: analyze records each body path at most once: the body part of the
\* result list contains no path twice.
C9_EachBodyPathOnce ==
    (pc = "returned" /\ ~fout.exc) => NoDuplicates(BodyFindings(fin, fout.out))

HEADER_PREFIX == "header:"

\* the 11 header names of the specification
VOLATILE_HEADER_NAMES ==
    <<"Authorization", "X-Request-ID", "X-Correlation-ID", "X-Timestamp", "X-Request-Time",
      "X-Response-Time", "ETag", "Last-Modified", "If-Modified-Since", "If-None-Match",
      "Cache-Control">>

RECURSIVE PathsOf(_, _)
PathsOf(value, path) ==
    CASE value.t = "dict" ->
            Concat([i \in 1..Len(value.v) |->
                        LET p == IF path = "" THEN value.v[i][1]
                                 ELSE path \o "." \o value.v[i][1]
                        IN <<p>> \o PathsOf(value.v[i][2], p)],
                   Len(value.v))
      [] value.t = "list" ->
            Concat([i \in 1..Len(value.v) |->
                        LET p == path \o "[" \o ToString(i - 1) \o "]"
                        IN <<p>> \o PathsOf(value.v[i], p)],
                   Len(value.v))
      [] OTHER -> <<>>

\* the place of x in seq (0 if absent)
Pos(seq, x) ==
    IF \E i \in 1..Len(seq) : seq[i] = x
    THEN CHOOSE i \in 1..Len(seq) : seq[i] = x /\ \A j \in 1..(i - 1) : seq[j] # x
    ELSE 0

\* C15: analyze returns the header findings first, in header order, then
\* the body findings in depth-first pre-order, each a path from the root
\* with no leading dot, .key for members and [index] for elements.
C15_TraversalOrder ==
    (pc = "returned" /\ ~fout.exc) =>
        LET out == fout.out
            nh == Len(SelectSeq(out, LAMBDA f : StartsWith(f, HEADER_PREFIX)))
            names == [i \in 1..Len(fin.headers) |-> HEADER_PREFIX \o fin.headers[i][1]]
            paths == PathsOf(fin.body, "")
        IN /\ \A i \in 1..nh : StartsWith(out[i], HEADER_PREFIX) /\ Pos(names, out[i]) > 0
           /\ \A i, j \in 1..nh : i < j => Pos(names, out[i]) < Pos(names, out[j])
           /\ \A i \in (nh + 1)..Len(out) : Pos(paths, out[i]) > 0
           /\ \A i, j \in (nh + 1)..Len(out) : i < j => Pos(paths, out[i]) <= Pos(paths, out[j])
           /\ fin.body = ScenarioB =>
                {"data.created_at", "data.session_id"} \subseteq Range(out)

\* Scenario B was analyzed together with noisy headers
C15_Witness ==
    /\ pc = "returned"
    /\ fin.body = ScenarioB
    /\ "header:X-Timestamp" \in Range(fout.out)
    /\ Pos(fout.out, "data.created_at") < Pos(fout.out, "data.session_id")

\* C19: a body scalar that is an ordinary small number or a boolean under a
\* non-noisy key is not recorded as a finding.
C19_SmallNumberNotNoise ==
    (pc = "returned" /\ ~fout.exc /\ fin.body.t = "dict") =>
        \A i \in 1..Len(fin.body.v) :
            LET key == fin.body.v[i][1]
                value == fin.body.v[i][2]
            IN (/\ ~MatchesNoisyKey(key)
                /\ \/ value.t = "bool"
                   \/ value.t = "int" /\ ~IsNegative(value.v) /\ DigitsLE(value.v, "999"))
               => key \notin Range(fout.out)

\* C20: analyze is total: it returns a list for every test case, whatever
\* numbers its body holds.
C20_AnalyzeNeverRaises ==
    pc = "returned" => ~fout.exc

(***************************************************************************)
(* RequestHandler.execute_request and IdempotencyChecker.sanitize_test_case *)
(* called on a TestCase object the caller keeps (fin)                      *)
(***************************************************************************)
METHODS == {"GET", "POST", "PUT", "DELETE", "PATCH"}

\* lines 19-21 of execute_request: `headers` is test_case.headers itself
DefaultHeaders(tc) ==
    IF ~HasKey(tc.headers, "Content-Type") /\ tc.method \in BODY_METHODS
    THEN SetItem(tc.headers, "Content-Type", "application/json")
    ELSE tc.headers

\* lines 24-29: the json= argument
RequestData(tc) ==
    IF tc.method \in BODY_METHODS
    THEN (IF tc.body.t = "dict" THEN tc.body ELSE DictV(<< <<"data", tc.body>> >>))
    ELSE NullV

\* response.raise_for_status(): 4xx and 5xx raise HTTPError
RaisesForStatus(r) == r.status_code >= 400

\* sanitize_test_case lines 142-145
SANITIZE_PATTERNS == {"timestamp", "token", "id", "random"}

SanitizedHeaders(headers) ==
    SelectSeq(headers, LAMBDA kv : ~\E pattern \in SANITIZE_PATTERNS : Contains(Lower(kv[1]), pattern))

\* _sanitize_dict: a new dict with the same keys; nested dicts, and dicts in
\* lists, rebuilt the same way; every other value kept
RECURSIVE _sanitize_dict(_)
_sanitize_dict(data) ==
    DictV([i \in 1..Len(data.v) |->
        LET key == data.v[i][1]
            value == data.v[i][2]
        IN <<key,
             CASE value.t = "dict" -> _sanitize_dict(value)
               [] value.t = "list" ->
                    ListV([j \in 1..Len(value.v) |->
                        IF value.v[j].t = "dict" THEN _sanitize_dict(value.v[j])
                        ELSE value.v[j]])
               [] OTHER -> value>>])

sanitize_test_case(tc) ==
    [tc EXCEPT !.headers = SanitizedHeaders(tc.headers),
               !.body = IF tc.body.t = "dict" THEN _sanitize_dict(tc.body) ELSE tc.body]

HandlerHeaders ==
    {<<>>,
     << <<"Content-Type", "text/plain">> >>,
     << <<"content-type", "application/json">> >>,
     << <<"X-Request-ID", "abc123">>, <<"Accept", "application/json">> >>}

HandlerBodies ==
    {NullV, DictV(<< <<"name", StrV("Jane Doe")>> >>),
     DictV(<< <<"data", ListV(<<DictV(<< <<"id", IntV("1")>> >>)>>)>> >>)}

HandlerCases ==
    {TestCase("case", m, h, b, FALSE) : m \in METHODS, h \in HandlerHeaders, b \in HandlerBodies}

HandlerPeer ==
    ServerResponses \cup
    {[status_code |-> 404, headers |-> JSON_HEADERS, text |-> "{\"ok\": true}",
      json |-> DictV(<< <<"ok", BoolV(TRUE)>> >>)]}

InitHandler ==
    /\ test_cases = <<>>
    /\ idx = 1
    /\ test_results = <<>>
    /\ pc = "call"
    /\ result = NoResult
    /\ noisy_params = <<>>
    /\ violations = <<>>
    /\ responses = <<>>
    /\ response = NoResponse
    /\ exception = None
    /\ events = <<>>
    /\ peer = HandlerPeer
    /\ hash_seed = <<>>
    /\ fin \in HandlerCases
    /\ fout = NullV

\* RequestHandler.execute_request(test_case): the default header is set on
\* the caller's object, then the request is sent
ExecuteRequest ==
    /\ pc = "call"
    /\ fin' = [fin EXCEPT !.headers = DefaultHeaders(fin)]
    /\ \/ \E r \in peer :
            /\ response' = r
            /\ exception' = IF RaisesForStatus(r) THEN "Request failed: HTTPError" ELSE None
            /\ events' = <<Event("execute_request", 0, ~RaisesForStatus(r),
                                 [test_case |-> fin, headers |-> DefaultHeaders(fin),
                                  json |-> RequestData(fin)])>>
       \/ \E e \in TransportErrors :
            /\ response' = NoResponse
            /\ exception' = "Request failed: " \o e
            /\ events' = <<Event("execute_request", 0, FALSE,
                                 [test_case |-> fin, headers |-> DefaultHeaders(fin),
                                  json |-> RequestData(fin)])>>
    /\ pc' = "returned"
    /\ UNCHANGED <<test_cases, idx, test_results, result, noisy_params, violations,
                   responses, peer, hash_seed, fout>>

\* IdempotencyChecker.sanitize_test_case(test_case): works on a copy
SanitizeTestCase ==
    /\ pc = "call"
    /\ fout' = sanitize_test_case(fin)
    /\ events' = <<Event("sanitize_test_case", 0, TRUE,
                         [test_case |-> fin, headers |-> <<>>, json |-> NullV])>>
    /\ pc' = "returned"
    /\ UNCHANGED <<test_cases, idx, test_results, result, noisy_params, violations,
                   responses, response, exception, peer, hash_seed, fin>>

NextHandler == ExecuteRequest \/ SanitizeTestCase

SpecHandler == InitHandler /\ [][NextHandler]_vars

\* C10: no engine operation mutates the TestCase it is given: after the
\* call its headers and body are what they were before it.
C10_TestCaseNotMutated ==
    (pc = "returned" /\ Len(events) = 1
        /\ events[1].kind \in {"execute_request", "sanitize_test_case"}) =>
        /\ fin.headers = events[1].data.test_case.headers
        /\ fin.body = events[1].data.test_case.body

(***************************************************************************)
(* Properties of check_test_case                                           *)
(***************************************************************************)
\* some step of the current check raised
Raised == \E i \in 1..Len(events) : ~events[i].ok

EventsOf(kinds) == SelectSeq(events, LAMBDA e : e.kind \in kinds)

ResultConsistent(r) ==
    r.success <=> /\ r.error_message = None
                  /\ r.idempotency_violations = <<>>
                  /\ r.noisy_parameters_found = <<>>

\* C1: every TestResult check_test_case returns has success true if and only
\* if no exception occurred (no error message), its violation list is empty
\* and its noise-finding list is empty.
C1_SuccessIff ==
    /\ pc = "return" =>
        /\ ResultConsistent(result)
        /\ Raised <=> result.error_message # None
        /\ result.success <=> /\ ~Raised
                              /\ result.idempotency_violations = <<>>
                              /\ result.noisy_parameters_found = <<>>
    /\ \A i \in 1..Len(test_results) : ResultConsistent(test_results[i])

\* a check that ran to the end without raising and found nothing
C1_Witness ==
    /\ pc = "return"
    /\ ~Raised
    /\ Len(EventsOf({"compare"})) = 1
    /\ result.success

AttemptEvents == EventsOf({"request", "snapshot"})

\* C3: the attempts are strictly sequential (request k, then snapshot k, then
\* request k+1), and when no step before the comparison raises there are
\* exactly 3 requests and the comparator runs once, after them, over exactly
\* the 3 snapshots in issue order; it never runs over fewer.
C3_ThreeSequentialAttempts ==
    /\ \A j \in 1..Len(AttemptEvents) :
        /\ AttemptEvents[j].kind = (IF j % 2 = 1 THEN "request" ELSE "snapshot")
        /\ AttemptEvents[j].k = (j + 1) \div 2
        /\ j > 1 => AttemptEvents[j - 1].ok
        /\ (j % 2 = 0 /\ AttemptEvents[j].ok) =>
                AttemptEvents[j].data = Snapshot(AttemptEvents[j - 1].data)
    /\ Len(AttemptEvents) <= 2 * num_executions
    /\ Len(EventsOf({"compare"})) <= 1
    /\ \A i \in 1..Len(events) : events[i].kind = "compare" =>
        LET before == SelectSeq(SubSeq(events, 1, i - 1),
                                LAMBDA e : e.kind \in {"request", "snapshot"})
        IN /\ before = AttemptEvents
           /\ Len(before) = 2 * num_executions
           /\ \A j \in 1..Len(before) : before[j].ok
           /\ events[i].data = [k \in 1..num_executions |-> before[2 * k].data]
    /\ (pc = "return" /\ Len(AttemptEvents) > 0
                      /\ \A j \in 1..Len(AttemptEvents) : AttemptEvents[j].ok) =>
        /\ Len(EventsOf({"request"})) = num_executions
        /\ Len(EventsOf({"compare"})) = 1

\* a check all of whose attempts returned, after the comparison
C3_Witness ==
    /\ pc = "return"
    /\ Len(EventsOf({"compare"})) = 1
    /\ Len(EventsOf({"request"})) = num_executions
    /\ \A j \in 1..Len(AttemptEvents) : AttemptEvents[j].ok

\* the TestResult of the current check once it is returned
Returned == IF pc = "return" THEN result ELSE test_results[Len(test_results)]

\* C4: when request attempt k raises a transport error, nothing runs after
\* it (no further attempt, no comparison, no HTML validation), the attempt is
\* neither skipped nor retried, and the returned TestResult has success
\* false, the error message and an empty violation list.
C4_TransportErrorIsFatal ==
    \A i \in 1..Len(events) : (events[i].kind = "request" /\ ~events[i].ok) =>
        /\ i = Len(events)
        /\ Len(EventsOf({"request"})) = events[i].k
        /\ Len(responses) = events[i].k - 1
        /\ pc \in {"except", "return", "idle"}
        /\ pc \in {"return", "idle"} =>
            /\ Returned.success = FALSE
            /\ Returned.error_message = events[i].data
            /\ Returned.idempotency_violations = <<>>

\* the second of the three attempts raised and the result was returned
C4_Witness ==
    /\ pc = "return"
    /\ \E i \in 1..Len(events) :
        events[i].kind = "request" /\ ~events[i].ok /\ events[i].k = 2

\* a POST whose only header is Content-Type and whose body is one non-noisy
\* key holding a list of alphanumeric strings
IsPayloadCase(tc) ==
    /\ tc.method = "POST"
    /\ Len(tc.headers) = 1 /\ tc.headers[1][1] = "Content-Type"
    /\ tc.body.t = "dict" /\ Len(tc.body.v) = 1
    /\ ~MatchesNoisyKey(tc.body.v[1][1])
    /\ tc.body.v[1][2].t = "list"
    /\ \A i \in 1..Len(tc.body.v[1][2].v) :
            /\ tc.body.v[1][2].v[i].t = "str"
            /\ tc.body.v[1][2].v[i].v # ""
            /\ AllIn(tc.body.v[1][2].v[i].v, ALNUM)

\* C13: for such a test case, when the three executions return identical
\* responses, check_test_case returns success = true.
C13_LargePayloadSucceeds ==
    (/\ pc = "return"
     /\ IsPayloadCase(result.test_case)
     /\ Len(responses) = num_executions
     /\ AllIdentical(responses)) => result.success

\* the issues the validator has for the text snapshots of rs, as reported
RECURSIVE HtmlIssuesFrom(_, _, _)
HtmlIssuesFrom(rs, k, tc) ==
    IF k > Len(rs) THEN <<>>
    ELSE (IF rs[k].body.t = "str"
          THEN ResponseIssues(k - 1, validate_html(rs[k].body.v, tc))
          ELSE <<>>)
         \o HtmlIssuesFrom(rs, k + 1, tc)

NoiseFree(tc) == analyze_parameters(tc) = Returns(<<>>)

\* C8: with html_validation enabled and text bodies returned, the validator
\* runs on each text snapshot without raising: the result has no error
\* message, its violations are the comparator's followed by the validator's
\* issues, and a noise-free test case with identical responses and clean
\* HTML gets success = true.
C8_HtmlValidationRuns ==
    (/\ pc = "return"
     /\ result.test_case.html_validation
     /\ Len(responses) = num_executions
     /\ \E k \in 1..Len(responses) : responses[k].body.t = "str") =>
        LET compared == _check_idempotency_violations(responses)
            issues == HtmlIssuesFrom(responses, 1, result.test_case)
        IN /\ result.error_message = None
           /\ result.idempotency_violations = compared \o issues
           /\ (NoiseFree(result.test_case) /\ compared = <<>> /\ issues = <<>>) =>
                result.success

(***************************************************************************)
(* HTMLValidator.validate_html and sanitize_html over documents            *)
(***************************************************************************)
MaxElements == 2

HtmlElements ==
    {"<p>hello</p>",
     "<div id=\"item42\" class=\"a temp-x\" data-id=\"7\" aria-label=\"x\">hi</div>",
     "<table><tr><td>cell</td></tr></table>",
     "<table><thead></thead><tr><td>cell</td></tr></table>",
     "<table><tr><td><table><thead></thead><tbody></tbody></table></td></tr></table>",
     "<form><input type=\"hidden\" name=\"csrf_token\"/></form>",
     "<form><input type=\"text\" name=\"q\"/></form>",
     "<span>at 2024-01-01T10:00:00</span>",
     "<b>12:30:45</b>"}

RECURSIVE JoinAll(_, _)
JoinAll(parts, k) == IF k > Len(parts) THEN "" ELSE parts[k] \o JoinAll(parts, k + 1)

HtmlDocs == {JoinAll(parts, 1) : parts \in UNION {[1..n -> HtmlElements] : n \in 1..MaxElements}}

InitHtml ==
    /\ test_cases = <<>>
    /\ idx = 1
    /\ test_results = <<>>
    /\ pc = "call"
    /\ result = NoResult
    /\ noisy_params = <<>>
    /\ violations = <<>>
    /\ responses = <<>>
    /\ response = NoResponse
    /\ exception = None
    /\ events = <<>>
    /\ peer = {}
    /\ hash_seed = <<>>
    /\ fin \in HtmlDocs
    /\ fout = <<>>

\* validate_html(fin, test_case)
CallValidateHtml ==
    /\ pc = "call"
    /\ fout' = <<validate_html(fin, NoTestCase)>>
    /\ pc' = "validated"
    /\ UNCHANGED <<test_cases, idx, test_results, result, noisy_params, violations,
                   responses, response, exception, events, peer, hash_seed, fin>>

\* sanitize_html(fin), then sanitize_html of the document it returned
CallSanitizeHtml ==
    /\ pc \in {"call", "sanitized"}
    /\ Len(fout) < 2
    /\ pc = "sanitized" => ~fout[1].exc
    /\ fout' = Append(fout, sanitize_html(IF pc = "call" THEN fin ELSE fout[1].out))
    /\ pc' = "sanitized"
    /\ UNCHANGED <<test_cases, idx, test_results, result, noisy_params, violations,
                   responses, response, exception, events, peer, hash_seed, fin>>

NextHtml == CallValidateHtml \/ CallSanitizeHtml

SpecHtml == InitHtml /\ [][NextHtml]_vars

\* C11: sanitize is an idempotent transform: for any input HTML it returns a
\* document, and sanitizing that document again returns the same document.
C11_SanitizeIdempotent ==
    pc = "sanitized" =>
        /\ ~fout[1].exc
        /\ Len(fout) = 2 => (~fout[2].exc /\ fout[2].out = fout[1].out)

\* the names sanitize is to remove: the fixed names and the data-/aria- families
IsIgnoredName(name) ==
    \/ name \in {"id", "class", "style", "src", "href", "alt", "title", "datetime"}
    \/ StartsWith(name, "data-")
    \/ StartsWith(name, "aria-")

\* C16: in the output of sanitize no element carries an ignored attribute
\* (id, class, style, src, href, alt, title, datetime, data-*, aria-*).
C16_NoIgnoredAttributeLeft ==
    (pc = "sanitized" /\ ~fout[1].exc) =>
        LET soup == BeautifulSoup(fout[1].out)
        IN \A k \in 1..Len(soup) : \A i \in 1..Len(soup[k].attrs) :
                ~IsIgnoredName(soup[k].attrs[i][1])

TABLE_ISSUE == "Table missing thead or tbody elements"

FORM_ISSUE == "Form missing CSRF token"

\* the elements called name that have no element called sub (with the
\* attributes attrs) inside them
Lacking(soup, name, sub, attrs) ==
    {k \in 1..Len(soup) :
        /\ soup[k].kind = "tag" /\ soup[k].name = name
        /\ ~\E j \in (k + 1)..Len(soup) :
                /\ \A i \in (k + 1)..j : soup[i].depth > soup[k].depth
                /\ soup[j].kind = "tag" /\ soup[j].name = sub
                /\ \A a \in attrs : <<a[1], [t |-> "str", v |-> a[2]]>> \in Range(soup[j].attrs)}

\* C17: the structural scan reports one issue for each table without a thead
\* or without a tbody inside it and one for each form without a hidden input
\* named csrf_token, and nothing else; a table of rows only yields exactly
\* one; success is true exactly when the issue list of all scans is empty.
C17_StructuralScan ==
    pc = "validated" =>
        LET soup == BeautifulSoup(fin)
            issues == fout[1].issues
            tables == Lacking(soup, "table", "thead", {}) \cup Lacking(soup, "table", "tbody", {})
            forms == Lacking(soup, "form", "input",
                             {<<"type", "hidden">>, <<"name", "csrf_token">>})
        IN /\ Len(SelectSeq(issues, LAMBDA x : x = TABLE_ISSUE)) = Cardinality(tables)
           /\ Len(SelectSeq(issues, LAMBDA x : x = FORM_ISSUE)) = Cardinality(forms)
           /\ Len(_check_unstable_structure(soup)) = Cardinality(tables) + Cardinality(forms)
           /\ fin = "<table><tr><td>cell</td></tr></table>" => issues = <<TABLE_ISSUE>>
           /\ fout[1].success <=> issues = <<>>

\* a table of rows only was validated
C17_Witness ==
    /\ pc = "validated"
    /\ fin = "<table><tr><td>cell</td></tr></table>"
    /\ fout[1].issues = <<TABLE_ISSUE>>
    /\ ~fout[1].success

CSRF_INPUT_ISSUE == "Dynamic content found: csrf in attribute name of tag input: csrf_token..."

\* C21: validate_html returns success = false for every document with a form
\* element: a form without a hidden input named csrf_token is flagged by the
\* structural scan, and a form with one is flagged by the dynamic-content
\* scan on the input's name attribute.
C21_FormNeverPasses ==
    pc = "validated" =>
        LET soup == BeautifulSoup(fin)
            forms == {k \in 1..Len(soup) : soup[k].kind = "tag" /\ soup[k].name = "form"}
            bare == Lacking(soup, "form", "input",
                            {<<"type", "hidden">>, <<"name", "csrf_token">>})
        IN /\ forms # {} => ~fout[1].success
           /\ bare # {} => FORM_ISSUE \in Range(fout[1].issues)
           /\ forms \ bare # {} => CSRF_INPUT_ISSUE \in Range(fout[1].issues)

\* a document that is one form with a hidden csrf_token input was validated,
\* and the dynamic-content issue on the input is the only issue
C21_Witness ==
    /\ pc = "validated"
    /\ fin = "<form><input type=\"hidden\" name=\"csrf_token\"/></form>"
    /\ fout[1].issues = <<CSRF_INPUT_ISSUE>>
    /\ ~fout[1].success

(***************************************************************************)
(* is_token over strings of dot-separated segments and over non-strings    *)
(***************************************************************************)
MaxSegments == 3

TokenSegments == {"", "abc", "Zz9-_=", "a b", "x+y", "e30\n"}

RECURSIVE JoinDots(_)
JoinDots(parts) ==
    IF Len(parts) = 1 THEN parts[1]
    ELSE JoinDots(SubSeq(parts, 1, Len(parts) - 1)) \o "." \o parts[Len(parts)]

TokenStrings ==
    {JoinDots(parts) : parts \in UNION { [1..n -> TokenSegments] : n \in 1..MaxSegments }}

TokenValues ==
    {StrV(s) : s \in TokenStrings}
    \cup {IntV("5"), BoolV(TRUE), NullV, ListV(<<StrV("abc")>>),
          DictV(<< <<"token", StrV("abc")>> >>)}

InitToken ==
    /\ test_cases = <<>>
    /\ idx = 1
    /\ test_results = <<>>
    /\ pc = "call"
    /\ result = NoResult
    /\ noisy_params = <<>>
    /\ violations = <<>>
    /\ responses = <<>>
    /\ response = NoResponse
    /\ exception = None
    /\ events = <<>>
    /\ peer = {}
    /\ hash_seed = <<>>
    /\ fin \in TokenValues
    /\ fout = None

CallIsToken ==
    /\ pc = "call"
    /\ fout' = is_token(fin)
    /\ pc' = "classified"
    /\ UNCHANGED <<test_cases, idx, test_results, result, noisy_params, violations,
                   responses, response, exception, events, peer, hash_seed, fin>>

SpecToken == InitToken /\ [][CallIsToken]_vars

URL_SAFE_BASE64 == UPPER \o LOWERCASE \o DIGITS \o "-_="

\* the segments of s between its dots
RECURSIVE DotSegments(_, _)
DotSegments(s, cur) ==
    IF s = "" THEN <<cur>>
    ELSE IF Char(s, 1) = "." THEN <<cur>> \o DotSegments(Rest(s), "")
    ELSE DotSegments(Rest(s), cur \o Char(s, 1))

IsBase64Run(s) == Len(s) >= 1 /\ AllIn(s, URL_SAFE_BASE64)

\* C18: is_token returns true only for a string that is exactly three
\* dot-separated non-empty runs of URL-safe base64 characters, or one such run
\* with no separator; for any other string and any non-string it returns false.
C18_TokenShapes ==
    (pc = "classified" /\ fout) =>
        /\ fin.t = "str"
        /\ LET segs == DotSegments(fin.v, "")
           IN /\ Len(segs) \in {1, 3}
              /\ \A i \in 1..Len(segs) : IsBase64Run(segs[i])

====
